---------------------------- MODULE Spec2Model ----------------------------
(***************************************************************************)
(* Model of the enrichment pipeline of BehRoooz/EnrichmentAnalyzer:        *)
(*   src/enrichment_pipeline.py  EnrichmentAnalyzer (load_degs,            *)
(*       run_enrichment, filter_significant, save_results,                 *)
(*       create_comparison_plot, analyze_sample, batch_analyze)            *)
(*   src/batch_processing.py     process_directory_structure               *)
(*                                                                         *)
(* Conventions.                                                            *)
(*   - A Python dict is a TLA+ function whose DOMAIN is the set of keys.   *)
(*   - A pandas DataFrame of enrichment results is DataFrame(rows), rows a *)
(*     sequence of records [Term, AdjP]; Python None is the value None.    *)
(*   - Adjusted p-values and thresholds are counted in hundredths:         *)
(*     5 is 0.05 and 100 is 1.0.                                           *)
(*   - The external world (the parsed workbook, the enrichment provider,   *)
(*     the file system) is a fixture carried by each input file.           *)
(***************************************************************************)
EXTENDS Integers, Sequences, FiniteSets, TLC

VARIABLES
    filter_df,        \* SpecFilter: the table handed to filter_significant
    filter_t,         \* SpecFilter: the threshold
    filter_out,       \* SpecFilter: filter_significant(filter_df, filter_t)
    filter_again,     \* SpecFilter: filter_significant(filter_out, filter_t)
    filter_pc,        \* SpecFilter: "idle" | "in" | "once" | "twice"
    load_file,        \* SpecLoad: the workbook handed to load_degs
    load_out,         \* SpecLoad: what load_degs returned or raised
    load_pc,          \* SpecLoad: "idle" | "in" | "out"
    plot_dict,        \* SpecPlot: the results dict of one category
    plot_t,           \* SpecPlot: the threshold
    plot_top_n,       \* SpecPlot: top_n
    plot_all,         \* SpecPlot: outcome of the all-terms plot call
    plot_sig,         \* SpecPlot: outcome of the significant-only plot call
    plot_pc,          \* SpecPlot: "idle" | "in" | "all" | "significant"
    organism,         \* EnrichmentAnalyzer.organism
    libraries,        \* EnrichmentAnalyzer.libraries
    coordinator,      \* "batch_analyze" | "process_directory_structure"
    batch_threshold,  \* the p_threshold the coordinator hands to analyze_sample
    xlsx_files,       \* the discovered files, in discovery order
    idx,              \* position of the for loop over xlsx_files (0: not begun)
    pc,               \* position of the run, see the actions
    sample_name,      \* analyze_sample: sample_name
    up_genes,         \* analyze_sample: up_genes
    down_genes,       \* analyze_sample: down_genes
    go_results,       \* analyze_sample: go_results (dict key -> DataFrame)
    pathway_results,  \* analyze_sample: pathway_results (dict key -> DataFrame)
    qn,               \* analyze_sample: number of the next run_enrichment call
    pn,               \* analyze_sample: number of the next plotted category
    results_summary,  \* analyze_sample: results_summary, then its return value
    exc,              \* str(e) of the exception in flight out of analyze_sample
    all_results,      \* the coordinator's list of outcomes
    events,           \* log of the calls made to collaborators, in order
    summary_files     \* the batch summaries written, in order

filter_vars == <<filter_df, filter_t, filter_out, filter_again, filter_pc>>
load_vars == <<load_file, load_out, load_pc>>
plot_vars == <<plot_dict, plot_t, plot_top_n, plot_all, plot_sig, plot_pc>>
analyzer_vars == <<organism, libraries>>
sample_vars == <<sample_name, up_genes, down_genes, go_results, pathway_results,
                 qn, pn, results_summary, exc>>
batch_vars == <<coordinator, batch_threshold, xlsx_files, idx, pc, all_results,
                events, summary_files>>
run_vars == <<analyzer_vars, sample_vars, batch_vars>>
vars == <<filter_vars, load_vars, plot_vars, run_vars>>

-----------------------------------------------------------------------------
(* Bounds of the model.                                                    *)

\* Longest result table drawn as an input of filter_significant.
MaxRows == 3
\* Longest workbook (number of DEG rows) drawn as an input of load_degs.
MaxDegRows == 2
\* Largest number of files a discovery returns.
MaxFiles == 3

-----------------------------------------------------------------------------
(* Values.                                                                 *)

\* Python None.
None == [kind |-> "None"]

\* A pandas DataFrame with the given rows; pd.DataFrame() is DataFrame(<<>>).
DataFrame(rows) == [kind |-> "DataFrame", rows |-> rows]

\* DataFrame.empty
IsEmpty(df) == Len(df.rows) = 0

\* len(df)
NRows(df) == Len(df.rows)

\* Adjusted p-values the drawn tables use (hundredths): 0, values on each side
\* of the thresholds, and 1.0.
PValues == {0, 4, 5, 6, 100}

\* Thresholds in (0,1] the filter is drawn with (hundredths); 5 is the default.
Thresholds == {1, 5, 6, 100}

\* The table whose i-th row is term i with adjusted p-value ps[i].
MkTable(ps) == DataFrame([i \in 1..Len(ps) |-> [Term |-> i, AdjP |-> ps[i]]])

SeqsUpTo(S, n) == UNION {[1..k -> S] : k \in 0..n}

\* The result tables drawn as inputs: every table of at most MaxRows rows.
Tables == {MkTable(ps) : ps \in SeqsUpTo(PValues, MaxRows)}

-----------------------------------------------------------------------------
(* filter_significant                                                      *)

\* A filter that slices one row too many off the front of the selection.
filter_significant_drop_first(results_df, p_threshold) ==
    IF results_df = None \/ IsEmpty(results_df)
    THEN DataFrame(<<>>)
    ELSE LET kept == SelectSeq(results_df.rows, LAMBDA r : r.AdjP < p_threshold)
         IN  DataFrame(IF kept = <<>> THEN kept ELSE Tail(kept))

\* A filter that compares with <= instead of <.
filter_significant_inclusive(results_df, p_threshold) ==
    IF results_df = None \/ IsEmpty(results_df)
    THEN DataFrame(<<>>)
    ELSE DataFrame(SelectSeq(results_df.rows, LAMBDA r : r.AdjP <= p_threshold))

\* EnrichmentAnalyzer.filter_significant
filter_significant(results_df, p_threshold) ==
    IF results_df = None \/ IsEmpty(results_df)
    THEN DataFrame(<<>>)
    ELSE DataFrame(SelectSeq(results_df.rows, LAMBDA r : r.AdjP < p_threshold))

-----------------------------------------------------------------------------
(* load_degs                                                               *)

\* Column names of the workbook.
GeneCol == "gene"
RegulationCol == "regulation"
FoldChangeCol == "log2FoldChange"

\* Gene symbols of the drawn workbooks; a symbol may repeat across rows.
Genes == {"g1", "g2"}

\* Values of a regulation column: the two the loader matches, and another one.
RegulationValues == {"Upregulated", "Downregulated", "unchanged"}

\* Cells of a log2FoldChange column: a number, or NaN for an empty cell.
Num(n) == [nan |-> FALSE, value |-> n]
NaN == [nan |-> TRUE, value |-> 0]
FoldChanges == {Num(-1), Num(0), Num(1), NaN}

\* x > 0 as numpy evaluates it: a comparison with NaN is False.
GreaterThanZero(x) == IF x.nan THEN FALSE ELSE x.value > 0

ColumnSets == SUBSET {GeneCol, RegulationCol, FoldChangeCol}

\* The rows of a workbook with the columns cols: a row is a dict column -> cell.
RowsOf(cols) ==
    {[c \in cols |-> IF c = GeneCol THEN g ELSE IF c = RegulationCol THEN r ELSE f] :
        g \in Genes, r \in RegulationValues, f \in FoldChanges}

\* The workbooks drawn as inputs: one that pd.read_excel cannot parse, and for
\* every set of columns every table of at most MaxDegRows rows.
Unparseable == [parses |-> FALSE, columns |-> {}, rows |-> <<>>]
Workbooks ==
    {Unparseable} \cup
    UNION {{[parses |-> TRUE, columns |-> cols, rows |-> rs] :
               rs \in SeqsUpTo(RowsOf(cols), MaxDegRows)} : cols \in ColumnSets}

\* np.where(df['log2FoldChange'] > 0, 'Upregulated', 'Downregulated')
np_where_regulation(x) ==
    IF GreaterThanZero(x) THEN "Upregulated" ELSE "Downregulated"

\* df[regulation_col] = ...: the rows with the derived column added.
WithRegulation(rows, regulation_col) ==
    [i \in 1..Len(rows) |->
        (regulation_col :> np_where_regulation(rows[i][FoldChangeCol])) @@ rows[i]]

\* df[df[regulation_col] == value][gene_col].tolist()
GenesWhere(rows, regulation_col, value, gene_col) ==
    LET sel == SelectSeq(rows, LAMBDA r : r[regulation_col] = value)
    IN  [i \in 1..Len(sel) |-> sel[i][gene_col]]

\* What load_degs returns (ok) or raises (not ok, with str(e)).
Loaded(up, down) == [ok |-> TRUE, up |-> up, down |-> down]
LoadError(text) == [ok |-> FALSE, error |-> text]

\* A loader that answers with two empty lists when the gene column is missing
\* (df.get(gene_col, []) instead of df[gene_col]).
load_degs_missing_gene_ok(file, gene_col, regulation_col) ==
    IF ~file.parses THEN LoadError("cannot parse workbook")
    ELSE IF regulation_col \notin file.columns /\ FoldChangeCol \notin file.columns
    THEN LoadError("KeyError: log2FoldChange")
    ELSE IF gene_col \notin file.columns
    THEN Loaded(<<>>, <<>>)
    ELSE LET rows == IF regulation_col \in file.columns THEN file.rows
                     ELSE WithRegulation(file.rows, regulation_col)
         IN  Loaded(GenesWhere(rows, regulation_col, "Upregulated", gene_col),
                    GenesWhere(rows, regulation_col, "Downregulated", gene_col))

\* A loader that sends a zero fold-change to the up list (>= instead of >).
load_degs_zero_up(file, gene_col, regulation_col) ==
    IF ~file.parses THEN LoadError("cannot parse workbook")
    ELSE IF regulation_col \notin file.columns /\ FoldChangeCol \notin file.columns
    THEN LoadError("KeyError: log2FoldChange")
    ELSE IF gene_col \notin file.columns
    THEN LoadError("KeyError: " \o gene_col)
    ELSE LET rows == IF regulation_col \in file.columns THEN file.rows
                     ELSE [i \in 1..Len(file.rows) |->
                            (regulation_col :>
                                (IF ~file.rows[i][FoldChangeCol].nan
                                    /\ file.rows[i][FoldChangeCol].value >= 0
                                 THEN "Upregulated" ELSE "Downregulated"))
                            @@ file.rows[i]]
         IN  Loaded(GenesWhere(rows, regulation_col, "Upregulated", gene_col),
                    GenesWhere(rows, regulation_col, "Downregulated", gene_col))

\* A loader whose down list is selected with 'Upregulated' as well.
load_degs_same_selector(file, gene_col, regulation_col) ==
    IF ~file.parses THEN LoadError("cannot parse workbook")
    ELSE IF regulation_col \notin file.columns /\ FoldChangeCol \notin file.columns
    THEN LoadError("KeyError: log2FoldChange")
    ELSE IF gene_col \notin file.columns
    THEN LoadError("KeyError: " \o gene_col)
    ELSE LET rows == IF regulation_col \in file.columns THEN file.rows
                     ELSE WithRegulation(file.rows, regulation_col)
         IN  Loaded(GenesWhere(rows, regulation_col, "Upregulated", gene_col),
                    GenesWhere(rows, regulation_col, "Upregulated", gene_col))

\* EnrichmentAnalyzer.load_degs
load_degs(file, gene_col, regulation_col) ==
    IF ~file.parses THEN LoadError("cannot parse workbook")
    ELSE IF regulation_col \notin file.columns /\ FoldChangeCol \notin file.columns
    THEN LoadError("KeyError: log2FoldChange")
    ELSE IF gene_col \notin file.columns
    THEN LoadError("KeyError: " \o gene_col)
    ELSE LET rows == IF regulation_col \in file.columns THEN file.rows
                     ELSE WithRegulation(file.rows, regulation_col)
         IN  Loaded(GenesWhere(rows, regulation_col, "Upregulated", gene_col),
                    GenesWhere(rows, regulation_col, "Downregulated", gene_col))

-----------------------------------------------------------------------------
(* Strings.                                                                *)

\* str.lower() on the strings the program lowers.
Lower(s) ==
    CASE s = "Human" -> "human"
      [] s = "Zebrafish" -> "zebrafish"
      [] s = "Biological_Process" -> "biological_process"
      [] s = "Molecular_Function" -> "molecular_function"
      [] s = "Cellular_Component" -> "cellular_component"
      [] s = "WikiPathways" -> "wikipathways"
      [] s = "KEGG" -> "kegg"
      [] OTHER -> s

\* pathway_db.split('_')[0]
SplitFirst(s) ==
    CASE s = "WikiPathways_2018" -> "WikiPathways"
      [] s = "KEGG_2019" -> "KEGG"
      [] OTHER -> s

\* The concatenation of a sequence of strings.
RECURSIVE Cat(_)
Cat(tokens) == IF tokens = <<>> THEN "" ELSE Head(tokens) \o Cat(Tail(tokens))

-----------------------------------------------------------------------------
(* EnrichmentAnalyzer.__init__ and _get_libraries                          *)

\* The organisms an analyzer is constructed with.
Organisms == {"Human", "Zebrafish", "mouse"}

\* A catalog without the default branch: an organism that is neither
\* zebrafish nor human gets no library at all.
get_libraries_no_default(org) ==
    IF Lower(org) = "zebrafish"
    THEN [go |-> <<"GO_Biological_Process_2018", "GO_Molecular_Function_2018",
                   "GO_Cellular_Component_2018">>,
          pathways |-> <<"WikiPathways_2018", "KEGG_2019">>]
    ELSE IF Lower(org) = "human"
    THEN [go |-> <<"GO_Biological_Process_2021", "GO_Molecular_Function_2021",
                   "GO_Cellular_Component_2021">>,
          pathways |-> <<"WikiPathways_2019_Human", "KEGG_2021_Human">>]
    ELSE [go |-> <<>>, pathways |-> <<>>]

\* EnrichmentAnalyzer._get_libraries
get_libraries(org) ==
    IF Lower(org) = "zebrafish"
    THEN [go |-> <<"GO_Biological_Process_2018", "GO_Molecular_Function_2018",
                   "GO_Cellular_Component_2018">>,
          pathways |-> <<"WikiPathways_2018", "KEGG_2019">>]
    ELSE IF Lower(org) = "human"
    THEN [go |-> <<"GO_Biological_Process_2021", "GO_Molecular_Function_2021",
                   "GO_Cellular_Component_2021">>,
          pathways |-> <<"WikiPathways_2019_Human", "KEGG_2021_Human">>]
    ELSE [go |-> <<"GO_Biological_Process_2018", "GO_Molecular_Function_2018",
                   "GO_Cellular_Component_2018">>,
          pathways |-> <<"WikiPathways_2018", "KEGG_2019">>]

\* Default of analyze_sample's and batch_analyze's p_threshold: 0.05.
DefaultThreshold == 5

\* Default of create_comparison_plot's top_n.
TopN == 10

-----------------------------------------------------------------------------
(* Paths and sample names.  A path relative to the root is a sequence of   *)
(* tokens: name fragments without '/' or '.', and the tokens "/" and ".".  *)

\* Index of the last token of path equal to t, 0 when there is none.
LastIndexOf(path, t) ==
    LET hits == {i \in 1..Len(path) : path[i] = t}
    IN  IF hits = {} THEN 0 ELSE CHOOSE i \in hits : \A j \in hits : j <= i

\* PurePath.name: the tokens after the last "/".
NameOf(path) == SubSeq(path, LastIndexOf(path, "/") + 1, Len(path))

\* PurePath.stem: the name without its last suffix; a leading or a trailing
\* "." starts no suffix.
StemOf(path) ==
    LET name == NameOf(path)
        dot == LastIndexOf(name, ".")
    IN  IF 1 < dot /\ dot < Len(name) THEN SubSeq(name, 1, dot - 1) ELSE name

\* PurePath.with_suffix(''): the path with the name replaced by its stem.
WithoutSuffix(path) == SubSeq(path, 1, LastIndexOf(path, "/")) \o StemOf(path)

\* str.replace('/', '_')
ReplaceSlash(path) == [i \in 1..Len(path) |-> IF path[i] = "/" THEN "_" ELSE path[i]]

\* batch_analyze: sample_name = xlsx_file.stem
StemSampleName(path) == Cat(StemOf(path))

\* A flat name that keeps the extension (no with_suffix('')).
FlatSampleName_keep_suffix(path) == Cat(ReplaceSlash(path))

\* process_directory_structure:
\* sample_name = str(relative_path.with_suffix('')).replace('/', '_')
FlatSampleName(path) == Cat(ReplaceSlash(WithoutSuffix(path)))

\* The sample name the coordinator coord derives for a discovered file.
SampleNameFor(coord, path) ==
    IF coord = "batch_analyze" THEN StemSampleName(path) ELSE FlatSampleName(path)

-----------------------------------------------------------------------------
(* run_enrichment, save_results, create_comparison_plot                    *)

\* What the provider (gp.enrichr) does with one call: it raises, or it returns
\* an Enrichr object whose .results is a table.
ProviderFault(text) == [kind |-> "fault", error |-> text]
Enrichr(df) == [kind |-> "Enrichr", results |-> df]

\* The outcome of a call: the value returned, or the exception raised, and
\* what the call did to the outside.
Returned(v, effects) == [raised |-> FALSE, value |-> v, error |-> "", effects |-> effects]
Raised(text, effects) == [raised |-> TRUE, value |-> None, error |-> text, effects |-> effects]

\* A run_enrichment without the try/except around the provider call.
run_enrichment_uncaught(gene_list, gene_set, org, response) ==
    IF gene_list = <<>>
    THEN Returned(None, <<>>)
    ELSE LET call == <<[op |-> "enrichr", gene_list |-> gene_list,
                        gene_sets |-> gene_set, organism |-> org,
                        answer |-> response.kind]>>
         IN  IF response.kind = "fault"
             THEN Raised(response.error, call)
             ELSE Returned(response, call)

\* A run_enrichment without the early return for an empty gene list.
run_enrichment_no_guard(gene_list, gene_set, org, response) ==
    LET call == <<[op |-> "enrichr", gene_list |-> gene_list,
                   gene_sets |-> gene_set, organism |-> org,
                   answer |-> response.kind]>>
    IN  IF response.kind = "fault"
        THEN Returned(None, call)
        ELSE Returned(response, call)

\* EnrichmentAnalyzer.run_enrichment; response is what gp.enrichr does when
\* it is called with these arguments.
run_enrichment(gene_list, gene_set, org, response) ==
    IF gene_list = <<>>
    THEN Returned(None, <<>>)
    ELSE LET call == <<[op |-> "enrichr", gene_list |-> gene_list,
                        gene_sets |-> gene_set, organism |-> org,
                        answer |-> response.kind]>>
         IN  IF response.kind = "fault"
             THEN Returned(None, call)
             ELSE Returned(response, call)

\* A save_results without the try/except around to_excel: the write error
\* leaves the call.
save_results_uncaught(results, filename, subdir, write_fails) ==
    IF results = None
    THEN Returned(None, <<>>)
    ELSE IF write_fails
    THEN Raised("to_excel failed", <<[op |-> "to_excel", filename |-> filename,
                                      subdir |-> subdir, written |-> FALSE]>>)
    ELSE Returned(None, <<[op |-> "to_excel", filename |-> filename,
                           subdir |-> subdir, written |-> TRUE]>>)

\* EnrichmentAnalyzer.save_results; write_fails tells whether to_excel raises.
save_results(results, filename, subdir, write_fails) ==
    IF results = None
    THEN Returned(None, <<>>)
    ELSE Returned(None, <<[op |-> "to_excel", filename |-> filename,
                           subdir |-> subdir, written |-> ~write_fails]>>)

\* DataFrame.head(n)
HeadRows(df, n) == SubSeq(df.rows, 1, IF Len(df.rows) < n THEN Len(df.rows) ELSE n)

\* A float: a finite number of hundredths, or an infinity with its sign.
Finite(n) == [inf |-> FALSE, value |-> n]
NegInf == [inf |-> TRUE, value |-> -1]
Negate(x) == [inf |-> x.inf, value |-> -x.value]

\* np.log10 of an adjusted p-value given in hundredths, in hundredths, for
\* the p-values that occur: log10(0.05) = -1.30; log10(0) is -inf (numpy
\* warns and does not raise).
np_log10(p) ==
    CASE p = 0 -> NegInf
      [] p = 1 -> Finite(-200)
      [] p = 4 -> Finite(-140)
      [] p = 5 -> Finite(-130)
      [] p = 6 -> Finite(-122)
      [] p = 50 -> Finite(-30)
      [] p = 100 -> Finite(0)

\* A magnitude that is negated for the down-regulated rows as well.
Magnitude_always_negated(p, direction) == Negate(np_log10(p))

\* The value of the '-log10(p-value)' column: -np.log10 for the up-regulated
\* rows, np.log10 for the down-regulated ones.
Magnitude(p, direction) ==
    IF direction = "Upregulated" THEN Negate(np_log10(p)) ELSE np_log10(p)

\* The bars of one direction: the top rows, tagged with the direction and
\* given their magnitude.
PlotData(df, direction, top_n) ==
    IF ~IsEmpty(df)
    THEN LET top == HeadRows(df, top_n)
         IN  [i \in 1..Len(top) |->
                [Term |-> top[i].Term, AdjP |-> top[i].AdjP, direction |-> direction,
                 neg_log10_p |-> Magnitude(top[i].AdjP, direction)]]
    ELSE <<>>

\* A plotter that raises when there is nothing to plot instead of logging a
\* warning and returning.
create_comparison_plot_empty_raises(up_results, down_results, filename, top_n, savefig_fails) ==
    LET up_plot_data == PlotData(up_results, "Upregulated", top_n)
        down_plot_data == PlotData(down_results, "Downregulated", top_n)
        combined_data == up_plot_data \o down_plot_data
    IN  IF up_plot_data = <<>> /\ down_plot_data = <<>>
        THEN Raised("No data to plot", <<>>)
        ELSE IF savefig_fails
        THEN Raised("savefig failed", <<[op |-> "savefig", filename |-> filename,
                                         bars |-> combined_data, written |-> FALSE]>>)
        ELSE Returned(None, <<[op |-> "savefig", filename |-> filename,
                               bars |-> combined_data, written |-> TRUE]>>)

\* EnrichmentAnalyzer.create_comparison_plot; savefig_fails tells whether
\* writing the chart raises.
create_comparison_plot(up_results, down_results, filename, top_n, savefig_fails) ==
    LET up_plot_data == PlotData(up_results, "Upregulated", top_n)
        down_plot_data == PlotData(down_results, "Downregulated", top_n)
        combined_data == up_plot_data \o down_plot_data
    IN  IF up_plot_data = <<>> /\ down_plot_data = <<>>
        THEN Returned(None, <<[op |-> "warning", filename |-> filename]>>)
        ELSE IF savefig_fails
        THEN Raised("savefig failed", <<[op |-> "savefig", filename |-> filename,
                                         bars |-> combined_data, written |-> FALSE]>>)
        ELSE Returned(None, <<[op |-> "savefig", filename |-> filename,
                               bars |-> combined_data, written |-> TRUE]>>)

\* dict.get(key, pd.DataFrame())
Get(dict, key) == IF key \in DOMAIN dict THEN dict[key] ELSE DataFrame(<<>>)

\* The dict with dict[key] = value assigned.
Put(dict, key, value) == (key :> value) @@ dict

EmptyDict == [k \in {} |-> 0]

-----------------------------------------------------------------------------
(* The ten queries and five plotted categories of analyze_sample.          *)

GoTypes == <<"Biological_Process", "Molecular_Function", "Cellular_Component">>
PathwayDbs == <<"WikiPathways_2018", "KEGG_2019">>
PlotGoTypes == <<"biological_process", "molecular_function", "cellular_component">>
PlotDbs == <<"wikipathways", "kegg">>

NQueries == 2 * (Len(GoTypes) + Len(PathwayDbs))
NCategories == Len(PlotGoTypes) + Len(PlotDbs)

\* A query loop whose second call of each category asks for the up-regulated
\* genes again instead of the down-regulated ones.
QueryPlan_up_only(n, sample) ==
    LET cat == (n + 1) \div 2
        direction == "up"
    IN  IF cat <= Len(GoTypes)
        THEN LET go_type == GoTypes[cat]
             IN  [group |-> "go",
                  library |-> "GO_" \o go_type \o "_2018",
                  direction |-> direction,
                  filename |-> sample \o "_" \o direction \o "_GO_" \o go_type,
                  subdir |-> "go_results",
                  key |-> direction \o "_" \o Lower(go_type)]
        ELSE LET pathway_db == PathwayDbs[cat - Len(GoTypes)]
                 db_name == SplitFirst(pathway_db)
             IN  [group |-> "pathway",
                  library |-> pathway_db,
                  direction |-> direction,
                  filename |-> sample \o "_" \o direction \o "_" \o db_name,
                  subdir |-> "pathway_results",
                  key |-> direction \o "_" \o Lower(db_name)]

\* A query loop that takes the library of each category from the catalog
\* selected at construction.
QueryPlan_from_catalog(n, sample) ==
    LET cat == (n + 1) \div 2
        direction == IF n % 2 = 1 THEN "up" ELSE "down"
    IN  IF cat <= Len(GoTypes)
        THEN LET go_type == GoTypes[cat]
             IN  [group |-> "go",
                  library |-> libraries.go[cat],
                  direction |-> direction,
                  filename |-> sample \o "_" \o direction \o "_GO_" \o go_type,
                  subdir |-> "go_results",
                  key |-> direction \o "_" \o Lower(go_type)]
        ELSE LET pathway_db == libraries.pathways[cat - Len(GoTypes)]
                 db_name == SplitFirst(PathwayDbs[cat - Len(GoTypes)])
             IN  [group |-> "pathway",
                  library |-> pathway_db,
                  direction |-> direction,
                  filename |-> sample \o "_" \o direction \o "_" \o db_name,
                  subdir |-> "pathway_results",
                  key |-> direction \o "_" \o Lower(db_name)]

\* The n-th run_enrichment call of analyze_sample, in program order: for each
\* GO type up then down, then for each pathway database up then down.
QueryPlan(n, sample) ==
    LET cat == (n + 1) \div 2
        direction == IF n % 2 = 1 THEN "up" ELSE "down"
    IN  IF cat <= Len(GoTypes)
        THEN LET go_type == GoTypes[cat]
             IN  [group |-> "go",
                  library |-> "GO_" \o go_type \o "_2018",
                  direction |-> direction,
                  filename |-> sample \o "_" \o direction \o "_GO_" \o go_type,
                  subdir |-> "go_results",
                  key |-> direction \o "_" \o Lower(go_type)]
        ELSE LET pathway_db == PathwayDbs[cat - Len(GoTypes)]
                 db_name == SplitFirst(pathway_db)
             IN  [group |-> "pathway",
                  library |-> pathway_db,
                  direction |-> direction,
                  filename |-> sample \o "_" \o direction \o "_" \o db_name,
                  subdir |-> "pathway_results",
                  key |-> direction \o "_" \o Lower(db_name)]

\* The n-th plotted category of analyze_sample, in program order.
PlotPlan(n, sample) ==
    IF n <= Len(PlotGoTypes)
    THEN LET go_type == PlotGoTypes[n]
         IN  [group |-> "go",
              up_key |-> "up_" \o go_type,
              down_key |-> "down_" \o go_type,
              filename |-> sample \o "_GO_" \o go_type,
              up_count |-> "go_" \o go_type \o "_up_significant",
              down_count |-> "go_" \o go_type \o "_down_significant"]
    ELSE LET db == PlotDbs[n - Len(PlotGoTypes)]
         IN  [group |-> "pathway",
              up_key |-> "up_" \o db,
              down_key |-> "down_" \o db,
              filename |-> sample \o "_" \o db \o "_pathways",
              up_count |-> db \o "_up_significant",
              down_count |-> db \o "_down_significant"]

-----------------------------------------------------------------------------
(* The input files of a run.  Each file carries its path relative to the   *)
(* root, the workbook pd.read_excel finds in it, and what the outside does *)
(* while it is analysed: whether creating the sample directory raises,     *)
(* what the provider answers to the n-th query, which result tables fail   *)
(* to be written and which chart (numbered in call order) fails to be      *)
(* written.                                                                *)

TwoSignificant == MkTable(<<1, 4, 5, 50>>)
NoneSignificant == MkTable(<<50, 100>>)
EmptyTable == MkTable(<<>>)
LongTable == MkTable([i \in 1..(TopN + 2) |-> 1])

UpAndDown ==
    [parses |-> TRUE, columns |-> {GeneCol, RegulationCol},
     rows |-> <<[gene |-> "g1", regulation |-> "Upregulated"],
                [gene |-> "g2", regulation |-> "Downregulated"],
                [gene |-> "g3", regulation |-> "Upregulated"]>>]

UpOnlyByFoldChange ==
    [parses |-> TRUE, columns |-> {GeneCol, FoldChangeCol},
     rows |-> <<[gene |-> "g1", log2FoldChange |-> Num(1)],
                [gene |-> "g2", log2FoldChange |-> Num(1)]>>]

InputFile(path, workbook, mkdir_fails, provider, save_fails, savefig_fails) ==
    [path |-> path, workbook |-> workbook, mkdir_fails |-> mkdir_fails,
     provider |-> provider, save_fails |-> save_fails,
     savefig_fails |-> savefig_fails]

VariedAnswers ==
    [n \in 1..NQueries |->
        CASE n % 4 = 1 -> Enrichr(TwoSignificant)
          [] n % 4 = 2 -> Enrichr(NoneSignificant)
          [] n % 4 = 3 -> Enrichr(EmptyTable)
          [] OTHER -> Enrichr(LongTable)]

SomeFaults ==
    [n \in 1..NQueries |->
        IF n \in {1, 2, 8} THEN ProviderFault("provider unreachable")
        ELSE Enrichr(TwoSignificant)]

SameAnswer(df) == [n \in 1..NQueries |-> Enrichr(df)]

FileUniverse ==
    { InputFile(<<"condA", "/", "DEGs_x", ".", "xlsx">>, UpOnlyByFoldChange, FALSE,
                VariedAnswers, {}, {}),
      InputFile(<<"condA_DEGs_x", ".", "xlsx">>, Unparseable, FALSE,
                SameAnswer(TwoSignificant), {}, {}),
      InputFile(<<"condB", "/", "DEGs_x", ".", "xlsx">>, UpAndDown, FALSE,
                SomeFaults, {3, 9}, {}),
      InputFile(<<"s1", ".", "xlsx">>, UpAndDown, FALSE,
                SameAnswer(TwoSignificant), {}, {3}),
      InputFile(<<"s2", ".", "v2", ".", "xlsx">>, UpAndDown, TRUE,
                SameAnswer(NoneSignificant), {}, {}) }

\* What a discovery (glob, rglob) can return: the files of the tree that match,
\* each once, in any order.
Discoveries ==
    {fs \in SeqsUpTo(FileUniverse, MaxFiles) :
        \A i, j \in 1..Len(fs) : i # j => fs[i] # fs[j]}

-----------------------------------------------------------------------------
(* A batch run: batch_analyze or process_directory_structure.              *)

\* The calls eff made while file number i was processed, as log entries.
Tag(i, eff) == [k \in 1..Len(eff) |-> [file |-> i, op |-> eff[k].op, call |-> eff[k]]]

\* The log entry of an exception leaving analyze_sample, raised in callee.
Escapes(callee, text) == <<[op |-> "raise", from |-> callee, error |-> text]>>

NoSample ==
    /\ sample_name = ""
    /\ up_genes = <<>>
    /\ down_genes = <<>>
    /\ go_results = EmptyDict
    /\ pathway_results = EmptyDict
    /\ qn = 0
    /\ pn = 0
    /\ results_summary = EmptyDict
    /\ exc = ""

\* The locals of analyze_sample are gone once it has returned or raised.
DropSample ==
    /\ sample_name' = ""
    /\ up_genes' = <<>>
    /\ down_genes' = <<>>
    /\ go_results' = EmptyDict
    /\ pathway_results' = EmptyDict
    /\ qn' = 0
    /\ pn' = 0
    /\ results_summary' = EmptyDict
    /\ exc' = ""

\* The state of the variables of SpecFilter in the other specifications.
FilterIdle ==
    /\ filter_df = None /\ filter_t = 0 /\ filter_out = None
    /\ filter_again = None /\ filter_pc = "idle"

\* The state of the variables of SpecLoad in the other specifications.
LoadIdle ==
    /\ load_file = Unparseable /\ load_out = None /\ load_pc = "idle"

\* The state of the variables of SpecPlot in the other specifications.
PlotIdle ==
    /\ plot_dict = EmptyDict /\ plot_t = 0 /\ plot_top_n = 0
    /\ plot_all = None /\ plot_sig = None /\ plot_pc = "idle"

\* The state of the run's variables in the specifications that run no batch.
RunIdle ==
    /\ organism = "human"
    /\ libraries = get_libraries("human")
    /\ coordinator = "none"
    /\ batch_threshold = DefaultThreshold
    /\ xlsx_files = <<>>
    /\ idx = 0
    /\ pc = "idle"
    /\ all_results = <<>>
    /\ events = <<>>
    /\ summary_files = <<>>
    /\ NoSample

\* EnrichmentAnalyzer(organism, output_dir) is constructed; batch_analyze is
\* called with any organism and threshold, process_directory_structure
\* constructs the analyzer with the defaults.
Init ==
    /\ coordinator \in {"batch_analyze", "process_directory_structure"}
    /\ organism \in (IF coordinator = "batch_analyze" THEN Organisms ELSE {"human"})
    /\ batch_threshold \in (IF coordinator = "batch_analyze"
                        THEN {DefaultThreshold, 100} ELSE {DefaultThreshold})
    /\ libraries = get_libraries(organism)
    /\ xlsx_files = <<>>
    /\ idx = 0
    /\ pc = "discover"
    /\ all_results = <<>>
    /\ events = <<>>
    /\ summary_files = <<>>
    /\ NoSample
    /\ FilterIdle
    /\ LoadIdle
    /\ PlotIdle

CurrentFile == xlsx_files[idx]

\* xlsx_files = list(input_path.glob(pattern)) / list(base_path.rglob("*.xlsx"));
\* without a file the coordinator returns at once.
Discover ==
    /\ pc = "discover"
    /\ \E fs \in Discoveries :
        /\ xlsx_files' = fs
        /\ pc' = IF fs = <<>> THEN "done" ELSE "loop"
    /\ UNCHANGED <<coordinator, batch_threshold, idx, all_results, events, summary_files>>
    /\ UNCHANGED <<analyzer_vars, sample_vars, filter_vars, load_vars, plot_vars>>

\* for xlsx_file in xlsx_files: the sample name is derived and analyze_sample
\* is called.
NextFile ==
    /\ pc = "loop"
    /\ idx < Len(xlsx_files)
    /\ idx' = idx + 1
    /\ sample_name' = SampleNameFor(coordinator, xlsx_files[idx + 1].path)
    /\ events' = events \o Tag(idx + 1, <<[op |-> "analyze_sample",
                                          sample_name |-> sample_name']>>)
    /\ pc' = "mkdir"
    /\ UNCHANGED <<coordinator, batch_threshold, xlsx_files, all_results, summary_files>>
    /\ UNCHANGED <<up_genes, down_genes, go_results, pathway_results, qn, pn,
                   results_summary, exc>>
    /\ UNCHANGED <<analyzer_vars, filter_vars, load_vars, plot_vars>>

\* analyze_sample: sample_dir.mkdir(exist_ok=True), outside any try.
MakeSampleDir ==
    /\ pc = "mkdir"
    /\ IF CurrentFile.mkdir_fails
       THEN /\ exc' = "cannot create sample directory"
            /\ events' = events \o Tag(idx, Escapes("mkdir", exc'))
            /\ pc' = "raised"
       ELSE /\ exc' = exc
            /\ events' = events
            /\ pc' = "loading"
    /\ UNCHANGED <<coordinator, batch_threshold, xlsx_files, idx, all_results,
                   summary_files>>
    /\ UNCHANGED <<sample_name, up_genes, down_genes, go_results, pathway_results,
                   qn, pn, results_summary>>
    /\ UNCHANGED <<analyzer_vars, filter_vars, load_vars, plot_vars>>

\* What analyze_sample makes of the loader's outcome: a failed outcome that it
\* returns, or the fresh results_summary.
AfterLoad(loaded, sample) ==
    IF ~loaded.ok
    THEN [status |-> "failed", error |-> loaded.error]
    ELSE [sample_name |-> sample,
          up_genes_count |-> Len(loaded.up),
          down_genes_count |-> Len(loaded.down),
          status |-> "success"]

\* An analyze_sample whose except clause around load_degs does not return: it
\* goes on to the queries with empty gene lists.
LoadSample_no_return ==
    /\ pc = "loading"
    /\ LET loaded == load_degs(CurrentFile.workbook, GeneCol, RegulationCol)
       IN  /\ events' = events \o Tag(idx, <<[op |-> "load_degs", ok |-> loaded.ok,
                                                 error |-> IF loaded.ok THEN ""
                                                           ELSE loaded.error]>>)
           /\ results_summary' = AfterLoad(loaded, sample_name)
           /\ up_genes' = IF loaded.ok THEN loaded.up ELSE <<>>
           /\ down_genes' = IF loaded.ok THEN loaded.down ELSE <<>>
           /\ qn' = 1
           /\ pc' = "querying"
    /\ UNCHANGED <<coordinator, batch_threshold, xlsx_files, idx, all_results, summary_files>>
    /\ UNCHANGED <<sample_name, go_results, pathway_results, pn, exc>>
    /\ UNCHANGED <<analyzer_vars, filter_vars, load_vars, plot_vars>>

\* analyze_sample: the try around load_degs and the initial results_summary.
LoadSample ==
    /\ pc = "loading"
    /\ LET loaded == load_degs(CurrentFile.workbook, GeneCol, RegulationCol)
       IN  /\ events' = events \o Tag(idx, <<[op |-> "load_degs", ok |-> loaded.ok,
                                                 error |-> IF loaded.ok THEN ""
                                                           ELSE loaded.error]>>)
           /\ results_summary' = AfterLoad(loaded, sample_name)
           /\ IF loaded.ok
              THEN /\ up_genes' = loaded.up
                   /\ down_genes' = loaded.down
                   /\ qn' = 1
                   /\ pc' = "querying"
              ELSE /\ up_genes' = up_genes
                   /\ down_genes' = down_genes
                   /\ qn' = qn
                   /\ pc' = "return"
    /\ UNCHANGED <<coordinator, batch_threshold, xlsx_files, idx, all_results, summary_files>>
    /\ UNCHANGED <<sample_name, go_results, pathway_results, pn, exc>>
    /\ UNCHANGED <<analyzer_vars, filter_vars, load_vars, plot_vars>>

\* analyze_sample: one run_enrichment call of the two query loops, with the
\* save_results call and the dict assignment that follow a truthy result.  An
\* exception that leaves either call leaves analyze_sample.
QueryStep ==
    /\ pc = "querying"
    /\ LET plan == QueryPlan(qn, sample_name)
           gene_list == IF plan.direction = "up" THEN up_genes ELSE down_genes
           enr == run_enrichment(gene_list, <<plan.library>>, organism,
                                 CurrentFile.provider[qn])
           saved == IF enr.raised \/ enr.value = None
                    THEN Returned(None, <<>>)
                    ELSE save_results(enr.value, plan.filename, plan.subdir,
                                      qn \in CurrentFile.save_fails)
           call == <<[op |-> "run_enrichment", n |-> qn, library |-> plan.library,
                      direction |-> plan.direction, gene_list |-> gene_list]>>
       IN  /\ events' = events \o Tag(idx, call \o enr.effects \o saved.effects
                                        \o (IF enr.raised
                                            THEN Escapes("run_enrichment", enr.error)
                                            ELSE IF saved.raised
                                            THEN Escapes("save_results", saved.error)
                                            ELSE <<>>))
           /\ IF enr.raised \/ saved.raised
              THEN /\ exc' = (IF enr.raised THEN enr.error ELSE saved.error)
                   /\ pc' = "raised"
                   /\ UNCHANGED <<go_results, pathway_results, qn, pn>>
              ELSE /\ exc' = exc
                   /\ go_results' =
                        IF enr.value # None /\ plan.group = "go"
                        THEN Put(go_results, plan.key, enr.value.results)
                        ELSE go_results
                   /\ pathway_results' =
                        IF enr.value # None /\ plan.group = "pathway"
                        THEN Put(pathway_results, plan.key, enr.value.results)
                        ELSE pathway_results
                   /\ IF qn < NQueries
                      THEN qn' = qn + 1 /\ pn' = pn /\ pc' = "querying"
                      ELSE qn' = qn /\ pn' = 1 /\ pc' = "plotting"
    /\ UNCHANGED <<coordinator, batch_threshold, xlsx_files, idx, all_results, summary_files>>
    /\ UNCHANGED <<sample_name, up_genes, down_genes, results_summary>>
    /\ UNCHANGED <<analyzer_vars, filter_vars, load_vars, plot_vars>>

\* The two counts recorded with the directions exchanged.
RecordCounts_swapped(summary, plan, up_data_filtered, down_data_filtered) ==
    Put(Put(summary, plan.up_count, NRows(down_data_filtered)),
        plan.down_count, NRows(up_data_filtered))

\* analyze_sample: results_summary[..._up_significant] = len(up_data_filtered)
\* and the same for down, for one plotted category.
RecordCounts(summary, plan, up_data_filtered, down_data_filtered) ==
    Put(Put(summary, plan.up_count, NRows(up_data_filtered)),
        plan.down_count, NRows(down_data_filtered))

\* analyze_sample: one round of the two plot loops: the two tables of the
\* category are filtered, the all-terms chart and the significant-only chart
\* are drawn and the two significant counts are recorded.
PlotStep ==
    /\ pc = "plotting"
    /\ LET plan == PlotPlan(pn, sample_name)
           dict == IF plan.group = "go" THEN go_results ELSE pathway_results
           up_data == Get(dict, plan.up_key)
           down_data == Get(dict, plan.down_key)
           up_data_filtered == filter_significant(Get(dict, plan.up_key), batch_threshold)
           down_data_filtered == filter_significant(Get(dict, plan.down_key), batch_threshold)
           filters == <<[op |-> "filter_significant", key |-> plan.up_key],
                        [op |-> "filter_significant", key |-> plan.down_key]>>
           all_terms == create_comparison_plot(up_data, down_data, plan.filename,
                            TopN, (2 * pn - 1) \in CurrentFile.savefig_fails)
           significant == create_comparison_plot(up_data_filtered, down_data_filtered,
                            plan.filename \o "_significant",
                            TopN, (2 * pn) \in CurrentFile.savefig_fails)
           plot_call(f) == <<[op |-> "create_comparison_plot", filename |-> f]>>
       IN  IF all_terms.raised
           THEN /\ events' = events \o Tag(idx, filters \o plot_call(plan.filename)
                                \o all_terms.effects
                                \o Escapes("create_comparison_plot", all_terms.error))
                /\ exc' = all_terms.error
                /\ pc' = "raised"
                /\ UNCHANGED <<pn, results_summary>>
           ELSE IF significant.raised
           THEN /\ events' = events \o Tag(idx, filters \o plot_call(plan.filename)
                                \o all_terms.effects
                                \o plot_call(plan.filename \o "_significant")
                                \o significant.effects
                                \o Escapes("create_comparison_plot", significant.error))
                /\ exc' = significant.error
                /\ pc' = "raised"
                /\ UNCHANGED <<pn, results_summary>>
           ELSE /\ events' = events \o Tag(idx, filters \o plot_call(plan.filename)
                                \o all_terms.effects
                                \o plot_call(plan.filename \o "_significant")
                                \o significant.effects)
                /\ exc' = exc
                /\ results_summary' =
                      RecordCounts(results_summary, plan,
                                   up_data_filtered, down_data_filtered)
                /\ IF pn < NCategories
                   THEN pn' = pn + 1 /\ pc' = "plotting"
                   ELSE pn' = pn /\ pc' = "return"
    /\ UNCHANGED <<coordinator, batch_threshold, xlsx_files, idx, all_results, summary_files>>
    /\ UNCHANGED <<sample_name, up_genes, down_genes, go_results, pathway_results, qn>>
    /\ UNCHANGED <<analyzer_vars, filter_vars, load_vars, plot_vars>>

\* A coordinator that appends only the outcomes whose status is 'success'.
AppendResult_skip_failed ==
    /\ pc = "return"
    /\ all_results' = IF results_summary.status = "success"
                      THEN Append(all_results, results_summary)
                      ELSE all_results
    /\ DropSample
    /\ pc' = "loop"
    /\ UNCHANGED <<coordinator, batch_threshold, xlsx_files, idx, events, summary_files>>
    /\ UNCHANGED <<analyzer_vars, filter_vars, load_vars, plot_vars>>

\* analyze_sample returns results_summary and the coordinator appends it:
\* all_results.append(result) / results_summary.append(result).
AppendResult ==
    /\ pc = "return"
    /\ all_results' = Append(all_results, results_summary)
    /\ DropSample
    /\ pc' = "loop"
    /\ UNCHANGED <<coordinator, batch_threshold, xlsx_files, idx, events, summary_files>>
    /\ UNCHANGED <<analyzer_vars, filter_vars, load_vars, plot_vars>>

\* What the coordinator's except clause appends for an exception with text e.
FailedOutcome(sample, e) == [sample_name |-> sample, status |-> "failed", error |-> e]

\* A coordinator without the try/except around analyze_sample: the exception
\* leaves the coordinator and the run is over.
CatchFailure_propagates ==
    /\ pc = "raised"
    /\ pc' = "done"
    /\ DropSample
    /\ UNCHANGED <<coordinator, batch_threshold, xlsx_files, idx, all_results, events,
                   summary_files>>
    /\ UNCHANGED <<analyzer_vars, filter_vars, load_vars, plot_vars>>

\* The coordinator's except Exception clause around analyze_sample.
CatchFailure ==
    /\ pc = "raised"
    /\ all_results' = Append(all_results, FailedOutcome(sample_name, exc))
    /\ DropSample
    /\ pc' = "loop"
    /\ UNCHANGED <<coordinator, batch_threshold, xlsx_files, idx, events, summary_files>>
    /\ UNCHANGED <<analyzer_vars, filter_vars, load_vars, plot_vars>>

\* Where the coordinator writes the summary.
SummaryPath(coord) ==
    IF coord = "batch_analyze" THEN "summary/batch_analysis_summary.xlsx"
    ELSE "batch_summary.xlsx"

\* A coordinator whose summary lists only the samples that succeeded.
SaveSummary_only_success ==
    /\ pc = "loop"
    /\ idx = Len(xlsx_files)
    /\ summary_files' = Append(summary_files,
                               [path |-> SummaryPath(coordinator),
                                rows |-> SelectSeq(all_results,
                                             LAMBDA r : r.status = "success")])
    /\ pc' = "done"
    /\ UNCHANGED <<coordinator, batch_threshold, xlsx_files, idx, all_results, events>>
    /\ UNCHANGED <<analyzer_vars, sample_vars, filter_vars, load_vars, plot_vars>>

\* After the loop: summary_df = pd.DataFrame(all_results); summary_df.to_excel(...)
SaveSummary ==
    /\ pc = "loop"
    /\ idx = Len(xlsx_files)
    /\ summary_files' = Append(summary_files,
                               [path |-> SummaryPath(coordinator), rows |-> all_results])
    /\ pc' = "done"
    /\ UNCHANGED <<coordinator, batch_threshold, xlsx_files, idx, all_results, events>>
    /\ UNCHANGED <<analyzer_vars, sample_vars, filter_vars, load_vars, plot_vars>>

Next ==
    \/ Discover
    \/ NextFile
    \/ MakeSampleDir
    \/ LoadSample
    \/ QueryStep
    \/ PlotStep
    \/ AppendResult
    \/ CatchFailure
    \/ SaveSummary

Spec == Init /\ [][Next]_vars

-----------------------------------------------------------------------------
(* Specification of filter_significant applied once and once more.         *)

InitFilter ==
    /\ filter_df \in Tables \cup {None}
    /\ filter_t \in Thresholds
    /\ filter_out = None
    /\ filter_again = None
    /\ filter_pc = "in"
    /\ LoadIdle
    /\ RunIdle
    /\ PlotIdle

\* filter_significant(filter_df, filter_t)
FilterOnce ==
    /\ filter_pc = "in"
    /\ filter_out' = filter_significant(filter_df, filter_t)
    /\ filter_pc' = "once"
    /\ UNCHANGED <<filter_df, filter_t, filter_again, load_vars, plot_vars, run_vars>>

\* filter_significant applied to its own result at the same threshold
FilterTwice ==
    /\ filter_pc = "once"
    /\ filter_again' = filter_significant(filter_out, filter_t)
    /\ filter_pc' = "twice"
    /\ UNCHANGED <<filter_df, filter_t, filter_out, load_vars, plot_vars, run_vars>>

NextFilter == FilterOnce \/ FilterTwice

SpecFilter == InitFilter /\ [][NextFilter]_vars

-----------------------------------------------------------------------------
(* Specification of load_degs applied to a drawn workbook.                 *)

InitLoad ==
    /\ load_file \in Workbooks
    /\ load_out = None
    /\ load_pc = "in"
    /\ FilterIdle
    /\ RunIdle
    /\ PlotIdle

\* load_degs(load_file, 'gene', 'regulation')
LoadDegs ==
    /\ load_pc = "in"
    /\ load_out' = load_degs(load_file, GeneCol, RegulationCol)
    /\ load_pc' = "out"
    /\ UNCHANGED <<load_file, filter_vars, plot_vars, run_vars>>

NextLoad == LoadDegs

SpecLoad == InitLoad /\ [][NextLoad]_vars

-----------------------------------------------------------------------------
(* The plots of one category, checked on drawn results: the all-terms call *)
(* and the significant-only call that analyze_sample makes for a category, *)
(* on a results dict that may lack either direction.                       *)

MaxPlotRows == 2

\* The adjusted p-values of the drawn tables: 0, at the default threshold, 1.
PlotPValues == {0, 5, 100}

\* The result tables of one direction.
PlotTables == {MkTable(ps) : ps \in SeqsUpTo(PlotPValues, MaxPlotRows)}

\* The results dict of one category: each direction has a table, or no entry
\* when its query gave no result.
PlotDicts ==
    {[k \in ks |-> IF k = "up_kegg" THEN u ELSE d] :
        ks \in SUBSET {"up_kegg", "down_kegg"}, u \in PlotTables, d \in PlotTables}

\* The values of top_n drawn: none, fewer than the rows, the default.
TopNs == {0, 1, TopN}

InitPlot ==
    /\ plot_dict \in PlotDicts
    /\ plot_t \in {DefaultThreshold, 100}
    /\ plot_top_n \in TopNs
    /\ plot_all = None
    /\ plot_sig = None
    /\ plot_pc = "in"
    /\ FilterIdle
    /\ LoadIdle
    /\ RunIdle

\* create_comparison_plot(up_data, down_data, ...) of one category
PlotAllTerms ==
    /\ plot_pc = "in"
    /\ plot_all' = create_comparison_plot(Get(plot_dict, "up_kegg"),
                                          Get(plot_dict, "down_kegg"),
                                          "s_kegg_pathways", plot_top_n, FALSE)
    /\ plot_pc' = "all"
    /\ UNCHANGED <<plot_dict, plot_t, plot_top_n, plot_sig>>
    /\ UNCHANGED <<filter_vars, load_vars, run_vars>>

\* create_comparison_plot(up_data_filtered, down_data_filtered, ...) of one
\* category
PlotSignificant ==
    /\ plot_pc = "all"
    /\ plot_sig' = create_comparison_plot(
                        filter_significant(Get(plot_dict, "up_kegg"), plot_t),
                        filter_significant(Get(plot_dict, "down_kegg"), plot_t),
                        "s_kegg_pathways_significant", plot_top_n, FALSE)
    /\ plot_pc' = "significant"
    /\ UNCHANGED <<plot_dict, plot_t, plot_top_n, plot_all>>
    /\ UNCHANGED <<filter_vars, load_vars, run_vars>>

NextPlot == PlotAllTerms \/ PlotSignificant

SpecPlot == InitPlot /\ [][NextPlot]_vars

-----------------------------------------------------------------------------
(* Properties of filter_significant (checked under SpecFilter).            *)

Range(s) == {s[i] : i \in 1..Len(s)}

\* The rows of df whose adjusted p-value is strictly below t, as a set.
RowsBelow(df, t) == {r \in Range(df.rows) : r.AdjP < t}

\* s is in strictly increasing order of Term, i.e. in the order of the table
\* it was taken from, and without a repeated row.
InTableOrder(s) == \A i, j \in 1..Len(s) : i < j => s[i].Term < s[j].Term

\* C7: for every result table and every threshold t in (0,1], filter_significant
\* returns exactly the rows whose adjusted p-value is strictly less than t, in
\* the table's order (a row equal to t is excluded; t = 1.0 keeps the rows
\* below 1), and for a None or empty input it returns an empty table.
C7_FilterStrictlyBelow ==
    filter_pc \in {"once", "twice"} =>
        /\ filter_out.kind = "DataFrame"
        /\ (filter_df = None \/ IsEmpty(filter_df)) => filter_out.rows = <<>>
        /\ filter_df # None =>
            /\ Range(filter_out.rows) = RowsBelow(filter_df, filter_t)
            /\ InTableOrder(filter_out.rows)
            /\ \A r \in Range(filter_df.rows) :
                   r.AdjP = filter_t => r \notin Range(filter_out.rows)

\* C7 witness: at threshold 1.0 a table holding a row at exactly 1.0 and a row
\* below it has been filtered, and the row below it is kept.
C7_Witness ==
    /\ filter_pc = "once"
    /\ filter_t = 100
    /\ filter_df # None
    /\ \E r \in Range(filter_df.rows) : r.AdjP = filter_t
    /\ \E r \in Range(filter_df.rows) : r.AdjP < filter_t
    /\ filter_out.rows # <<>>

\* C8: filter_significant is idempotent: filtering the filtered table again at
\* the same threshold gives the same rows (also for a None or empty input).
C8_FilterIdempotent ==
    filter_pc = "twice" => filter_again.rows = filter_out.rows

\* C8 witness: a table that lost some but not all of its rows in the first
\* pass has been filtered a second time.
C8_Witness ==
    /\ filter_pc = "twice"
    /\ filter_df # None
    /\ filter_out.rows # <<>>
    /\ Len(filter_out.rows) < Len(filter_df.rows)

-----------------------------------------------------------------------------
(* Properties of load_degs (checked under SpecLoad).                       *)

\* The gene column of the rows that satisfy Keep, in row order.
GeneColumnOf(rows, Keep(_)) ==
    LET sel == SelectSeq(rows, Keep)
    IN  [i \in 1..Len(sel) |-> sel[i][GeneCol]]

\* The workbook was parsed, lacks the regulation column and has the gene and
\* the fold-change columns: the fallback path of load_degs.
FallbackInput(file) ==
    /\ file.parses
    /\ RegulationCol \notin file.columns
    /\ FoldChangeCol \in file.columns
    /\ GeneCol \in file.columns

IsPositive(r) == ~r[FoldChangeCol].nan /\ r[FoldChangeCol].value > 0
IsZeroOrNegative(r) == ~r[FoldChangeCol].nan /\ r[FoldChangeCol].value <= 0
IsNotPositive(r) == ~IsPositive(r)

\* C9: without a regulation column load_degs classifies every row by its
\* log2FoldChange: strictly positive rows make up the up list, zero and negative
\* rows go to the down list (zero is Downregulated), and every row lands in
\* exactly one of the two lists.
C9_FallbackClassification ==
    (load_pc = "out" /\ FallbackInput(load_file)) =>
        /\ load_out.ok
        /\ load_out.up = GeneColumnOf(load_file.rows, IsPositive)
        /\ load_out.down = GeneColumnOf(load_file.rows, IsNotPositive)
        /\ \A i \in 1..Len(load_file.rows) :
               IsZeroOrNegative(load_file.rows[i]) =>
                   load_file.rows[i][GeneCol] \in Range(load_out.down)
        /\ Len(load_out.up) + Len(load_out.down) = Len(load_file.rows)

\* C9 witness: a workbook without regulation column holding a row with
\* fold-change 0 and a row with a positive fold-change has been loaded.
C9_Witness ==
    /\ load_pc = "out"
    /\ FallbackInput(load_file)
    /\ \E i \in 1..Len(load_file.rows) : load_file.rows[i][FoldChangeCol] = Num(0)
    /\ \E i \in 1..Len(load_file.rows) : IsPositive(load_file.rows[i])
    /\ load_out.ok
    /\ Len(load_out.up) = 1 /\ Len(load_out.down) = 1

\* The workbook was parsed and has a gene column and a regulation column whose
\* every cell is 'Upregulated' or 'Downregulated'.
ValidRegulationInput(file) ==
    /\ file.parses
    /\ GeneCol \in file.columns
    /\ RegulationCol \in file.columns
    /\ \A i \in 1..Len(file.rows) :
           file.rows[i][RegulationCol] \in {"Upregulated", "Downregulated"}

AllGenes(file) == {file.rows[i][GeneCol] : i \in 1..Len(file.rows)}

\* No gene symbol stands in an Upregulated row and in a Downregulated row.
NoGeneInBothDirections(file) ==
    \A i, j \in 1..Len(file.rows) :
        file.rows[i][GeneCol] = file.rows[j][GeneCol]
            => file.rows[i][RegulationCol] = file.rows[j][RegulationCol]

\* C10 as stated: for every input table with a valid regulation column the up
\* set and the down set returned by load_degs are disjoint and their union is
\* the full set of genes of the table.
C10_Original ==
    (load_pc = "out" /\ ValidRegulationInput(load_file)) =>
        /\ load_out.ok
        /\ Range(load_out.up) \cap Range(load_out.down) = {}
        /\ Range(load_out.up) \cup Range(load_out.down) = AllGenes(load_file)

\* C10 amended: for every input table with a valid regulation column every row
\* contributes its gene to exactly one of the two lists (the up list holds the
\* genes of the Upregulated rows, the down list those of the Downregulated
\* rows, together one entry per row) and the union is the full set of genes;
\* the two lists share no gene provided no gene symbol stands in rows of both
\* directions.
C10_PartitionOfRows ==
    (load_pc = "out" /\ ValidRegulationInput(load_file)) =>
        /\ load_out.ok
        /\ Range(load_out.up) \cup Range(load_out.down) = AllGenes(load_file)
        /\ Len(load_out.up) + Len(load_out.down) = Len(load_file.rows)
        /\ load_out.up =
              GeneColumnOf(load_file.rows, LAMBDA r : r[RegulationCol] = "Upregulated")
        /\ load_out.down =
              GeneColumnOf(load_file.rows, LAMBDA r : r[RegulationCol] = "Downregulated")
        /\ NoGeneInBothDirections(load_file) =>
              Range(load_out.up) \cap Range(load_out.down) = {}

\* C10 witness: a workbook with a valid regulation column, one Upregulated and
\* one Downregulated row of different genes, has been loaded.
C10_Witness ==
    /\ load_pc = "out"
    /\ ValidRegulationInput(load_file)
    /\ NoGeneInBothDirections(load_file)
    /\ load_out.ok
    /\ load_out.up # <<>> /\ load_out.down # <<>>

-----------------------------------------------------------------------------
(* Properties of a batch run (checked under Spec).                         *)

\* The positions in the log of the calls op made while file i was processed.
EventsAt(i, op) == {k \in 1..Len(events) : events[k].file = i /\ events[k].op = op}

\* The outcome of file i has been appended to the coordinator's list.
Processed(i) == i <= Len(all_results)

\* An exception left analyze_sample for file i.
RaisedIn(i) == EventsAt(i, "raise") # {}
RaiseText(i) == events[CHOOSE k \in EventsAt(i, "raise") : TRUE].call.error

\* load_degs raised, respectively returned the gene lists, for file i.
LoadFailed(i) == \E k \in EventsAt(i, "load_degs") : ~events[k].call.ok
LoadedOk(i) == \E k \in EventsAt(i, "load_degs") : events[k].call.ok
LoadErrorText(i) == events[CHOOSE k \in EventsAt(i, "load_degs") : TRUE].call.error

\* The coordinator is done with file i: a later file is current, or the loop
\* is between two files or over.
DoneWith(i) == i < idx \/ (i = idx /\ pc \in {"loop", "done"})

\* C1: in a batch run of either coordinator, if analyze_sample raises while
\* processing file f, the coordinator records for f an outcome with status
\* 'failed', the sample name and the error text, and every file after f in
\* the discovery list is still passed to analyze_sample.
C1_FaultIsolatedPerFile ==
    /\ \A i \in 1..Len(xlsx_files) :
          (RaisedIn(i) /\ DoneWith(i)) =>
              /\ Processed(i)
              /\ all_results[i] =
                    [sample_name |-> SampleNameFor(coordinator, xlsx_files[i].path),
                     status |-> "failed",
                     error |-> RaiseText(i)]
    /\ pc = "done" =>
          \A i \in 1..Len(xlsx_files) : RaisedIn(i) =>
              \A j \in (i + 1)..Len(xlsx_files) : EventsAt(j, "analyze_sample") # {}
    /\ pc = "raised" => ENABLED CatchFailure

\* C1 witness: the run is over, analyze_sample raised for a file that is not
\* the last one, and the file after it was analysed with success.
C1_Witness ==
    /\ pc = "done"
    /\ \E i \in 1..(Len(xlsx_files) - 1) :
          /\ RaisedIn(i)
          /\ all_results[i].status = "failed"
          /\ all_results[i + 1].status = "success"

\* C2: after a batch run the summary holds exactly one outcome per discovered
\* file, in discovery order, whatever mix of load failures, raised faults and
\* successes occurred: the i-th outcome is the one of the i-th file.
C2_OneOutcomePerFileInOrder ==
    /\ pc = "loop" => Len(all_results) = idx
    /\ pc = "done" => Len(all_results) = Len(xlsx_files)
    /\ \A i \in 1..Len(all_results) :
          /\ EventsAt(i, "analyze_sample") # {}
          /\ all_results[i].status =
                IF LoadFailed(i) \/ RaisedIn(i) THEN "failed" ELSE "success"
          /\ "sample_name" \in DOMAIN all_results[i] =>
                all_results[i].sample_name =
                    SampleNameFor(coordinator, xlsx_files[i].path)
    /\ \A k \in 1..Len(summary_files) : summary_files[k].rows = all_results

\* C2 witness: a run over three files is over; the second file failed loading
\* and the other two succeeded, and the outcomes read success, failed, success.
C2_Witness ==
    /\ pc = "done"
    /\ Len(xlsx_files) = 3
    /\ LoadFailed(2) /\ LoadedOk(1) /\ LoadedOk(3)
    /\ ~RaisedIn(1) /\ ~RaisedIn(3)
    /\ Len(all_results) = 3
    /\ all_results[1].status = "success"
    /\ all_results[2].status = "failed"
    /\ all_results[3].status = "success"
    /\ Len(summary_files) = 1

\* C3 as stated: once load_degs has returned the gene lists of a sample, no
\* fault in run_enrichment, save_results, filter_significant or
\* create_comparison_plot makes analyze_sample raise, and the outcome recorded
\* for the sample is 'success'.
C3_NoFailureAfterLoading ==
    \A i \in 1..Len(xlsx_files) :
        LoadedOk(i) =>
            /\ ~RaisedIn(i)
            /\ Processed(i) => all_results[i].status = "success"

\* C4: when load_degs fails for a sample, analyze_sample goes directly to the
\* 'failed' outcome carrying the load error; no run_enrichment call, no
\* provider call, no persistence, no filter and no plot is made for the sample.
C4_LoadFailureSkipsEverything ==
    /\ \A i \in 1..Len(xlsx_files) :
          LoadFailed(i) =>
              /\ \A op \in {"run_enrichment", "enrichr", "to_excel",
                            "filter_significant", "create_comparison_plot",
                            "savefig", "raise"} : EventsAt(i, op) = {}
              /\ (i = idx /\ pc \notin {"loop", "done"}) =>
                    /\ pc = "return"
                    /\ results_summary =
                          [status |-> "failed", error |-> LoadErrorText(i)]
              /\ Processed(i) =>
                    /\ all_results[i].status = "failed"
                    /\ all_results[i].error = LoadErrorText(i)
    /\ pc \in {"querying", "plotting"} => LoadedOk(idx)

\* C4 witness: a file whose workbook cannot be loaded has been processed and
\* the run is over.
C4_Witness ==
    /\ pc = "done"
    /\ \E i \in 1..Len(xlsx_files) :
          /\ LoadFailed(i)
          /\ Processed(i)
          /\ all_results[i].status = "failed"

\* The keys of the results the current sample holds.
ResultKeys == DOMAIN go_results \cup DOMAIN pathway_results

\* The queries of the current sample that have been made.
QueriesMade ==
    IF pc = "querying" THEN 1..(qn - 1)
    ELSE IF pc \in {"plotting", "return"} /\ qn > 0 THEN 1..NQueries
    ELSE {}

\* C5: a provider fault during one run_enrichment call is caught and turned
\* into no result for that query only: it never leaves run_enrichment, nothing
\* is stored or saved for that query, and all the remaining queries of the
\* sample are still issued.
C5_ProviderFaultStaysLocal ==
    /\ \A k \in 1..Len(events) :
          events[k].op = "raise" => events[k].call.from # "run_enrichment"
    /\ \A k \in 1..Len(events) :
          (events[k].op = "enrichr" /\ events[k].call.answer = "fault") =>
              /\ k = Len(events) \/ events[k + 1].op \notin {"to_excel", "raise"}
              /\ events[k - 1].op = "run_enrichment"
              /\ (events[k].file < idx \/ pc \notin {"querying"}) =>
                    \A m \in (events[k - 1].call.n + 1)..NQueries :
                        \E j \in EventsAt(events[k].file, "run_enrichment") :
                            events[j].call.n = m
    /\ \A n \in QueriesMade :
          CurrentFile.provider[n].kind = "fault" =>
              QueryPlan(n, sample_name).key \notin ResultKeys

\* C5 witness: the provider faulted on the first query of a sample, and the
\* last query of that sample was issued and answered.
C5_Witness ==
    \E k \in 1..Len(events) :
        /\ events[k].op = "enrichr"
        /\ events[k].call.answer = "fault"
        /\ events[k - 1].call.n = 1
        /\ \E j \in EventsAt(events[k].file, "run_enrichment") :
              /\ events[j].call.n = NQueries
              /\ j < Len(events)
              /\ events[j + 1].op = "enrichr"
              /\ events[j + 1].call.answer = "Enrichr"

\* C6: a run_enrichment call with an empty gene list gives no result, raises
\* nothing and does not call the provider; so a sample with an empty direction
\* makes no provider call for that direction.
C6_EmptyGeneListNoProviderCall ==
    /\ \A k \in 1..Len(events) :
          events[k].op = "enrichr" => events[k].call.gene_list # <<>>
    /\ \A k \in 1..Len(events) :
          (events[k].op = "run_enrichment" /\ events[k].call.gene_list = <<>>) =>
              k = Len(events) \/ events[k + 1].op \notin {"enrichr", "to_excel", "raise"}
    /\ \A n \in QueriesMade :
          (IF QueryPlan(n, sample_name).direction = "up"
           THEN up_genes ELSE down_genes) = <<>>
              => QueryPlan(n, sample_name).key \notin ResultKeys

\* C6 witness: a sample without down-regulated genes has been analysed: its
\* down queries were made with an empty list, its up queries reached the
\* provider, and the run is over.
C6_Witness ==
    /\ pc = "done"
    /\ \E k \in 1..Len(events) :
          /\ events[k].op = "run_enrichment"
          /\ events[k].call.gene_list = <<>>
          /\ events[k].call.direction = "down"
          /\ EventsAt(events[k].file, "enrichr") # {}

-----------------------------------------------------------------------------
(* C11: the inputs on which load_degs ends in a load error.                 *)

\* The workbook cannot be read as a table at all.
CannotParse(file) == ~file.parses

\* The table has no column of gene symbols.
GeneColumnMissing(file) == file.parses /\ GeneCol \notin file.columns

\* The table has neither a regulation column nor a fold-change column.
NoDirectionColumn(file) ==
    /\ file.parses
    /\ RegulationCol \notin file.columns
    /\ FoldChangeCol \notin file.columns

\* C11: load_degs ends in an error, and hands back no up or down gene list,
\* whenever the workbook cannot be parsed, or has no gene column, or has
\* neither the regulation column nor the log2FoldChange column.
C11_LoadErrorCases ==
    (load_pc = "out" /\ (\/ CannotParse(load_file)
                         \/ GeneColumnMissing(load_file)
                         \/ NoDirectionColumn(load_file))) =>
        /\ ~load_out.ok
        /\ DOMAIN load_out = {"ok", "error"}

\* C11 witness: load_degs has failed on a parsed table that has rows and a
\* regulation column and lacks only the gene column.
C11_Witness ==
    /\ load_pc = "out"
    /\ GeneColumnMissing(load_file)
    /\ RegulationCol \in load_file.columns
    /\ load_file.rows # <<>>
    /\ ~load_out.ok

-----------------------------------------------------------------------------
(* C12: the counts carried by a successful outcome.                        *)

\* The ten significant-count fields of an outcome, in the order in which the
\* ten queries of a sample are made (category by category, up before down).
CountKeys ==
    <<"go_biological_process_up_significant", "go_biological_process_down_significant",
      "go_molecular_function_up_significant", "go_molecular_function_down_significant",
      "go_cellular_component_up_significant", "go_cellular_component_down_significant",
      "wikipathways_up_significant", "wikipathways_down_significant",
      "kegg_up_significant", "kegg_down_significant">>

\* The gene list of the direction of the n-th query of a file.
GeneListOf(file, n) ==
    LET loaded == load_degs(file.workbook, GeneCol, RegulationCol)
    IN  IF n % 2 = 1 THEN loaded.up ELSE loaded.down

\* Whether the n-th query of a file produced a result: its gene list is not
\* empty and the provider answered.
HasResult(file, n) ==
    GeneListOf(file, n) # <<>> /\ file.provider[n].kind = "Enrichr"

\* The number of rows of the result of the n-th query of a file whose
\* adjusted p-value is below the threshold t; 0 when there is no result.
SignificantRows(file, n, t) ==
    IF HasResult(file, n)
    THEN Cardinality({k \in 1..Len(file.provider[n].results.rows) :
                         file.provider[n].results.rows[k].AdjP < t})
    ELSE 0

\* C12: every outcome with status 'success' carries the up and down gene
\* counts and all ten significant counts, and each significant count is the
\* number of rows of that query's result whose adjusted p-value is below the
\* threshold of the run, 0 when the query gave no result.
C12_SuccessCarriesCounts ==
    \A i \in 1..Len(all_results) :
        all_results[i].status = "success" =>
            LET file == xlsx_files[i]
                loaded == load_degs(file.workbook, GeneCol, RegulationCol)
            IN  /\ {"up_genes_count", "down_genes_count"} \subseteq DOMAIN all_results[i]
                /\ all_results[i].up_genes_count = Len(loaded.up)
                /\ all_results[i].down_genes_count = Len(loaded.down)
                /\ \A n \in 1..Len(CountKeys) :
                      /\ CountKeys[n] \in DOMAIN all_results[i]
                      /\ all_results[i][CountKeys[n]]
                            = SignificantRows(file, n, batch_threshold)

\* C12 witness: a successful outcome has been appended for a sample of which
\* one query got no answer from the provider (count 0) and another got a
\* table with rows on both sides of the threshold (count above 0 and below
\* the number of rows).
C12_Witness ==
    \E i \in 1..Len(all_results) :
        /\ all_results[i].status = "success"
        /\ \E n \in 1..Len(CountKeys) :
              /\ GeneListOf(xlsx_files[i], n) # <<>>
              /\ xlsx_files[i].provider[n].kind # "Enrichr"
              /\ all_results[i][CountKeys[n]] = 0
        /\ \E n \in 1..Len(CountKeys) :
              /\ HasResult(xlsx_files[i], n)
              /\ all_results[i][CountKeys[n]] > 0
              /\ all_results[i][CountKeys[n]]
                    < Len(xlsx_files[i].provider[n].results.rows)

-----------------------------------------------------------------------------
(* C13: every result is handed to save_results under its own identifier.   *)

\* The identifier under which the result of the n-th query of a sample is
\* saved: the folder of the category group and the file name made of the
\* sample name, the direction and the category.
SavedAs(n, sample) ==
    LET suffix == <<"_up_GO_Biological_Process", "_down_GO_Biological_Process",
                    "_up_GO_Molecular_Function", "_down_GO_Molecular_Function",
                    "_up_GO_Cellular_Component", "_down_GO_Cellular_Component",
                    "_up_WikiPathways", "_down_WikiPathways",
                    "_up_KEGG", "_down_KEGG">>
    IN  [subdir |-> IF n <= 6 THEN "go_results" ELSE "pathway_results",
         filename |-> sample \o suffix[n]]

\* The name under which file i was passed to analyze_sample.
NameOfSample(i) ==
    events[CHOOSE k \in EventsAt(i, "analyze_sample") : TRUE].call.sample_name

\* The position in the log of the n-th run_enrichment call of file i.
QueryEvent(i, n) ==
    CHOOSE k \in EventsAt(i, "run_enrichment") : events[k].call.n = n

\* The n-th query of file i has been made and the provider answered it.
Answered(i, n) ==
    /\ \E k \in EventsAt(i, "run_enrichment") : events[k].call.n = n
    /\ QueryEvent(i, n) < Len(events)
    /\ events[QueryEvent(i, n) + 1].op = "enrichr"
    /\ events[QueryEvent(i, n) + 1].call.answer = "Enrichr"

\* C13: every enrichment result the provider produced is handed to
\* save_results, within the same query and so before analyze_sample returns,
\* under the identifier of its own category and direction, and no two results
\* of a sample share an identifier; a write that fails stays inside
\* save_results: no exception leaves it, the next query is still made, and a
\* sample whose only faults are failed writes ends with status 'success'.
C13_EveryResultSaved ==
    /\ \A k \in 1..Len(events) :
          (events[k].op = "enrichr" /\ events[k].call.answer = "Enrichr") =>
              LET i == events[k].file
                  n == events[k - 1].call.n
                  id == SavedAs(n, NameOfSample(i))
              IN  /\ k < Len(events)
                  /\ events[k + 1].file = i
                  /\ events[k + 1].op = "to_excel"
                  /\ events[k + 1].call.subdir = id.subdir
                  /\ events[k + 1].call.filename = id.filename
    /\ \A i \in 1..Len(xlsx_files) : \A k, l \in EventsAt(i, "to_excel") :
          (events[k].call.subdir = events[l].call.subdir
             /\ events[k].call.filename = events[l].call.filename) => k = l
    /\ \A k \in 1..Len(events) :
          (events[k].op = "to_excel" /\ ~events[k].call.written) =>
              LET i == events[k].file
                  n == events[k - 2].call.n
              IN  /\ \A r \in EventsAt(i, "raise") : events[r].call.from # "save_results"
                  /\ k < Len(events) => events[k + 1].op # "raise"
                  /\ (n < Len(CountKeys) /\ k < Len(events)) =>
                        /\ events[k + 1].file = i
                        /\ events[k + 1].op = "run_enrichment"
                        /\ events[k + 1].call.n = n + 1
                  /\ (Processed(i) /\ ~RaisedIn(i)) => all_results[i].status = "success"

\* C13 witness: a sample two of whose result tables could not be written has
\* ended with status 'success', with all ten queries made and one to_excel
\* call for each answered query.
C13_Witness ==
    \E i \in 1..Len(all_results) :
        /\ all_results[i].status = "success"
        /\ Cardinality({k \in EventsAt(i, "to_excel") : ~events[k].call.written}) = 2
        /\ Cardinality(EventsAt(i, "run_enrichment")) = Len(CountKeys)
        /\ Cardinality(EventsAt(i, "to_excel"))
              = Cardinality({n \in 1..Len(CountKeys) : Answered(i, n)})
        /\ EventsAt(i, "to_excel") # {}

-----------------------------------------------------------------------------
(* C14: a chart that cannot be written.                                     *)

\* C14: a failure to write a chart image stays inside create_comparison_plot:
\* no exception leaves the call, and the outcome of the sample is 'success'
\* unless something else went wrong.
C14_ChartWriteFailureKeepsStatus ==
    \A k \in 1..Len(events) :
        (events[k].op = "savefig" /\ ~events[k].call.written) =>
            LET i == events[k].file
            IN  /\ \A r \in EventsAt(i, "raise") :
                      events[r].call.from # "create_comparison_plot"
                /\ (Processed(i) /\ LoadedOk(i)
                      /\ \A r \in EventsAt(i, "raise") :
                            events[r].call.from = "create_comparison_plot")
                      => all_results[i].status = "success"

-----------------------------------------------------------------------------
(* C15: the sample name in every outcome.                                   *)

\* C15: every outcome in the coordinator's list, the 'failed' one that
\* analyze_sample returns after a load error included, carries the name of
\* the sample it belongs to.
C15_EveryOutcomeNamesItsSample ==
    \A i \in 1..Len(all_results) :
        /\ "sample_name" \in DOMAIN all_results[i]
        /\ all_results[i].sample_name = NameOfSample(i)

-----------------------------------------------------------------------------
(* C16: the batch summary.                                                  *)

\* The number of rows of a summary with the given status.
Total(rows, status) == Cardinality({k \in 1..Len(rows) : rows[k].status = status})

\* The summary lists, file by file, the outcome of every discovered file, and
\* its success and failure totals add up to the number of files.
SummaryComplete(summary) ==
    /\ Len(summary.rows) = Len(xlsx_files)
    /\ summary.rows = all_results
    /\ \A k \in 1..Len(summary.rows) : summary.rows[k].status \in {"success", "failed"}
    /\ Total(summary.rows, "success") + Total(summary.rows, "failed") = Len(xlsx_files)

-----------------------------------------------------------------------------
(* C17, C18: the sample names.                                              *)

\* The files of the run that have been passed to analyze_sample.
Analysed == {i \in 1..Len(xlsx_files) : EventsAt(i, "analyze_sample") # {}}

\* C17: two different files of one run never get the same sample name.
C17_DistinctNamesForDistinctFiles ==
    \A i, j \in Analysed :
        xlsx_files[i].path # xlsx_files[j].path => NameOfSample(i) # NameOfSample(j)

\* The relative path with the extension stripped and every directory
\* separator replaced by "_", written out for the files of the tree.
ExpectedFlatName(path) ==
    CASE path = <<"condA", "/", "DEGs_x", ".", "xlsx">> -> "condA_DEGs_x"
      [] path = <<"condA_DEGs_x", ".", "xlsx">> -> "condA_DEGs_x"
      [] path = <<"condB", "/", "DEGs_x", ".", "xlsx">> -> "condB_DEGs_x"
      [] path = <<"s1", ".", "xlsx">> -> "s1"
      [] path = <<"s2", ".", "v2", ".", "xlsx">> -> "s2.v2"

\* The file name with the extension stripped, for the files of the tree.
ExpectedStem(path) ==
    CASE path = <<"condA", "/", "DEGs_x", ".", "xlsx">> -> "DEGs_x"
      [] path = <<"condA_DEGs_x", ".", "xlsx">> -> "condA_DEGs_x"
      [] path = <<"condB", "/", "DEGs_x", ".", "xlsx">> -> "DEGs_x"
      [] path = <<"s1", ".", "xlsx">> -> "s1"
      [] path = <<"s2", ".", "v2", ".", "xlsx">> -> "s2.v2"

\* The file lies directly under the root.
AtRoot(path) == \A k \in 1..Len(path) : path[k] # "/"

-----------------------------------------------------------------------------
(* C19: the library catalog.                                                *)

\* The catalog of an organism that is not recognised.
DefaultCatalog ==
    [go |-> <<"GO_Biological_Process_2018", "GO_Molecular_Function_2018",
              "GO_Cellular_Component_2018">>,
     pathways |-> <<"WikiPathways_2018", "KEGG_2019">>]

\* The catalog of human, in any letter case.
HumanCatalog ==
    [go |-> <<"GO_Biological_Process_2021", "GO_Molecular_Function_2021",
              "GO_Cellular_Component_2021">>,
     pathways |-> <<"WikiPathways_2019_Human", "KEGG_2021_Human">>]

\* The organism identifiers that are recognised, in the letter cases drawn.
HumanSpellings == {"human", "Human"}
ZebrafishSpellings == {"zebrafish", "Zebrafish"}

\* C19: whatever the organism identifier, in any letter case, known or not,
\* the catalog has at least one library under 'go' and at least one under
\* 'pathways'; an identifier that is neither human nor zebrafish gets the
\* default catalog (human, in any case, gets the human one, zebrafish one
\* with the entries of the default); and the catalog
\* is at every step of the run the one built at construction.
C19_CatalogTotalAndFixed ==
    /\ DOMAIN libraries = {"go", "pathways"}
    /\ Len(libraries.go) >= 1
    /\ Len(libraries.pathways) >= 1
    /\ organism \notin (HumanSpellings \cup ZebrafishSpellings) =>
          libraries = DefaultCatalog
    /\ organism \in HumanSpellings => libraries = HumanCatalog
    /\ organism \in ZebrafishSpellings => libraries = DefaultCatalog

\* C19 witness: a run for an organism that is not recognised has analysed a
\* sample to the end and written its summary, and the catalog is still the
\* default one.
C19_Witness ==
    /\ pc = "done"
    /\ organism \notin (HumanSpellings \cup ZebrafishSpellings)
    /\ \E i \in 1..Len(all_results) : all_results[i].status = "success"
    /\ libraries = DefaultCatalog

-----------------------------------------------------------------------------
(* C20: the ten queries of a sample.                                        *)

\* The library of each of the three ontology and two pathway categories.
CategoryLibraries ==
    {"GO_Biological_Process_2018", "GO_Molecular_Function_2018",
     "GO_Cellular_Component_2018", "WikiPathways_2018", "KEGG_2019"}

\* The (category, direction) pairs for which run_enrichment has been called
\* for file i.
PairsQueried(i) ==
    {<<events[k].call.library, events[k].call.direction>> :
        k \in EventsAt(i, "run_enrichment")}

\* The filter_significant and create_comparison_plot calls made for file i.
PlotPhaseEvents(i) ==
    EventsAt(i, "filter_significant") \cup EventsAt(i, "create_comparison_plot")

\* The querying of file i is over: its plotting has begun, or the coordinator
\* is done with the file.
QueryingOver(i) == LoadedOk(i) /\ (PlotPhaseEvents(i) # {} \/ DoneWith(i))

\* C20: for a sample whose gene lists were loaded, run_enrichment is called
\* exactly once for each (category, direction) pair of the three ontology and
\* two pathway categories, ten calls in all, each for a single library, and
\* every one of these calls is made before the first filter_significant or
\* create_comparison_plot call of the sample.
C20_TenQueriesBeforePlotting ==
    \A i \in 1..Len(xlsx_files) :
        LET queries == EventsAt(i, "run_enrichment")
            pairs == PairsQueried(i)
            plots == PlotPhaseEvents(i)
        IN  /\ \A k, l \in queries :
                  (events[k].call.library = events[l].call.library
                     /\ events[k].call.direction = events[l].call.direction) => k = l
            /\ pairs \subseteq CategoryLibraries \X {"up", "down"}
            /\ \A k \in EventsAt(i, "enrichr") :
                  /\ events[k - 1].op = "run_enrichment"
                  /\ events[k].call.gene_sets = <<events[k - 1].call.library>>
            /\ QueryingOver(i) =>
                  /\ pairs = CategoryLibraries \X {"up", "down"}
                  /\ Cardinality(queries) = 10
            /\ \A k \in queries : \A f \in plots : k < f

\* C20 witness: a sample has been analysed to the end: ten run_enrichment
\* calls were made for it, then its tables were filtered and plotted.
C20_Witness ==
    \E i \in 1..Len(all_results) :
        /\ all_results[i].status = "success"
        /\ Cardinality(EventsAt(i, "run_enrichment")) = 10
        /\ EventsAt(i, "filter_significant") # {}
        /\ EventsAt(i, "create_comparison_plot") # {}

-----------------------------------------------------------------------------
(* C21: nothing to plot.                                                    *)

\* The rows of one direction handed to the all-terms call: those of the
\* direction's result, none when the query gave no result.
AllTermsRows(key) == IF key \in DOMAIN plot_dict THEN plot_dict[key].rows ELSE <<>>

\* The number of rows of one direction handed to the significant-only call.
SignificantCount(key) ==
    IF key \in DOMAIN plot_dict THEN Cardinality(RowsBelow(plot_dict[key], plot_t)) ELSE 0

\* Nothing is left of either direction: each has no row, or top_n is 0.
NothingToPlot(n_up, n_down, top_n) == top_n = 0 \/ (n_up = 0 /\ n_down = 0)

\* The call wrote no chart, raised nothing and logged the condition.
NoChartNoError(outcome) ==
    /\ ~outcome.raised
    /\ \A k \in 1..Len(outcome.effects) : outcome.effects[k].op # "savefig"
    /\ \E k \in 1..Len(outcome.effects) : outcome.effects[k].op = "warning"

\* C21: create_comparison_plot called with two tables that are both empty, or
\* empty once cut to top_n rows, writes no chart and returns without raising:
\* so does the all-terms call when neither query gave a result,
\* and so does the significant-only call when no term of either direction is
\* below the threshold.
C21_NothingToPlotNoChart ==
    /\ (plot_pc \in {"all", "significant"}
          /\ NothingToPlot(Len(AllTermsRows("up_kegg")), Len(AllTermsRows("down_kegg")),
                           plot_top_n))
          => NoChartNoError(plot_all)
    /\ (plot_pc = "significant"
          /\ NothingToPlot(SignificantCount("up_kegg"), SignificantCount("down_kegg"),
                           plot_top_n))
          => NoChartNoError(plot_sig)

\* C21 witness: both directions have rows and the all-terms call drew them,
\* no term is below the threshold, and the significant-only call has returned
\* without a chart.
C21_Witness ==
    /\ plot_pc = "significant"
    /\ plot_top_n > 0
    /\ AllTermsRows("up_kegg") # <<>>
    /\ AllTermsRows("down_kegg") # <<>>
    /\ \E k \in 1..Len(plot_all.effects) : plot_all.effects[k].op = "savefig"
    /\ SignificantCount("up_kegg") = 0
    /\ SignificantCount("down_kegg") = 0
    /\ NoChartNoError(plot_sig)

-----------------------------------------------------------------------------
(* C22: the bars of a chart.                                                *)

\* The bars of the chart a call wrote; none when it wrote no chart.
ChartBars(outcome) ==
    IF outcome.effects # <<>> /\ outcome.effects[1].op = "savefig"
    THEN outcome.effects[1].bars ELSE <<>>

Min(a, b) == IF a < b THEN a ELSE b

\* log10 of an adjusted p-value in (0,1], both in hundredths.
Log10Hundredths(p) == CASE p = 5 -> -130 [] p = 100 -> 0

\* bars are the first min(top_n, rows) rows of up followed by the first
\* min(top_n, rows) rows of down, each in its table's order, with the
\* direction's magnitude; for p-values in (0,1] up bars are >= 0 and down
\* bars <= 0.
BarsAreTopRows(bars, up, down, top_n) ==
    LET n_up == Min(top_n, Len(up))
        n_down == Min(top_n, Len(down))
    IN  /\ Len(bars) = n_up + n_down
        /\ \A j \in 1..n_up :
              /\ bars[j].Term = up[j].Term
              /\ bars[j].AdjP = up[j].AdjP
              /\ bars[j].direction = "Upregulated"
              /\ up[j].AdjP \in 1..100 =>
                    /\ bars[j].neg_log10_p = Finite(0 - Log10Hundredths(up[j].AdjP))
                    /\ bars[j].neg_log10_p.value >= 0
        /\ \A j \in 1..n_down :
              /\ bars[n_up + j].Term = down[j].Term
              /\ bars[n_up + j].AdjP = down[j].AdjP
              /\ bars[n_up + j].direction = "Downregulated"
              /\ down[j].AdjP \in 1..100 =>
                    /\ bars[n_up + j].neg_log10_p = Finite(Log10Hundredths(down[j].AdjP))
                    /\ bars[n_up + j].neg_log10_p.value <= 0

\* The rows of one direction handed to the significant-only call.
SignificantRowsOf(key) ==
    SelectSeq(AllTermsRows(key), LAMBDA r : r.AdjP < plot_t)

\* C22: the bars create_comparison_plot draws are, for each direction, the
\* first min(top_n, number of rows) rows of that direction's table in the
\* table's order, up rows before down rows, with magnitude -log10(adjusted
\* p-value) for the up rows and +log10(adjusted p-value) for the down rows;
\* for adjusted p-values in (0,1] every up bar is >= 0 and every down bar
\* is <= 0.
C22_BarsAreTopRows ==
    /\ plot_pc \in {"all", "significant"} =>
          BarsAreTopRows(ChartBars(plot_all), AllTermsRows("up_kegg"),
                         AllTermsRows("down_kegg"), plot_top_n)
    /\ plot_pc = "significant" =>
          BarsAreTopRows(ChartBars(plot_sig), SignificantRowsOf("up_kegg"),
                         SignificantRowsOf("down_kegg"), plot_top_n)

\* C22 witness: a chart was drawn with top_n below the number of rows of both
\* tables: it has top_n up bars followed by top_n down bars, and a down bar
\* below 0.
C22_Witness ==
    /\ plot_pc = "all"
    /\ plot_top_n >= 1
    /\ Len(AllTermsRows("up_kegg")) > plot_top_n
    /\ Len(AllTermsRows("down_kegg")) > plot_top_n
    /\ Len(ChartBars(plot_all)) = 2 * plot_top_n
    /\ \E j \in 1..Len(ChartBars(plot_all)) :
          /\ ChartBars(plot_all)[j].direction = "Downregulated"
          /\ ~ChartBars(plot_all)[j].neg_log10_p.inf
          /\ ChartBars(plot_all)[j].neg_log10_p.value < 0

-----------------------------------------------------------------------------
(* C23: the libraries sent to the provider.                                 *)

\* The libraries sent to the provider for file i.
LibrariesSent(i) ==
    {events[k].call.gene_sets[1] : k \in EventsAt(i, "enrichr")}

\* The libraries of the catalog selected at construction.
CatalogLibraries == Range(libraries.go) \cup Range(libraries.pathways)

\* C23: every library identifier sent to the provider is one of
\* GO_Biological_Process_2018, GO_Molecular_Function_2018,
\* GO_Cellular_Component_2018, WikiPathways_2018 and KEGG_2019, whatever the
\* organism and its catalog, and a sample with genes in both directions is
\* queried for all five; the organism sent with each query is the configured
\* one; so for human none of the libraries queried is in the human catalog.
C23_LibrariesIndependentOfCatalog ==
    /\ \A k \in 1..Len(events) :
          events[k].op = "enrichr" =>
              /\ Len(events[k].call.gene_sets) = 1
              /\ events[k].call.gene_sets[1] \in CategoryLibraries
              /\ events[k].call.organism = organism
              /\ organism \in HumanSpellings =>
                    events[k].call.gene_sets[1] \notin CatalogLibraries
    /\ \A i \in 1..Len(xlsx_files) :
          (QueryingOver(i)
             /\ GeneListOf(xlsx_files[i], 1) # <<>>
             /\ GeneListOf(xlsx_files[i], 2) # <<>>)
              => LibrariesSent(i) = CategoryLibraries

\* C23 witness: a run for human, written with a capital, is over; a sample
\* was queried for the five 2018/2019 libraries, with that organism, while
\* the catalog holds the human libraries.
C23_Witness ==
    /\ pc = "done"
    /\ organism = "Human"
    /\ libraries = HumanCatalog
    /\ \E i \in 1..Len(xlsx_files) :
          /\ LibrariesSent(i) = CategoryLibraries
          /\ \A k \in EventsAt(i, "enrichr") : events[k].call.organism = "Human"

=============================================================================
